---- MODULE Spec2Model ----
(***************************************************************************)
(* Model of src/api-test.js: the environment store (loadEnv, saveEnv),     *)
(* the request executor (sendRequest), the test-suite runner               *)
(* (runTestSuite), the report generator (generateReport) and the           *)
(* interactive session (interactiveTest).                                  *)
(*                                                                         *)
(* JavaScript values are modelled as follows.  An object is a record or a  *)
(* function from its own property names; a property that is not in the     *)
(* DOMAIN reads as undefined.  A file is [kind |-> "missing"],             *)
(* [kind |-> "garbage"] (present, not JSON) or [kind |-> "json", value].   *)
(* A JSON schema is the set of its <<keyword, value>> pairs, so {} is the  *)
(* empty schema.                                                           *)
(***************************************************************************)
EXTENDS FiniteSets, Integers, Sequences, TLC

VARIABLES
    suiteFile,   \* content of the <file> argument of `run`
    reportFile,  \* content of REPORT_FILE
    envFile,     \* content of ENV_FILE
    pc,          \* position of the runTestSuite invocation
    tests,       \* runTestSuite: const tests
    results,     \* runTestSuite: const results
    next,        \* runTestSuite: index of the next case the for-of loop takes
    inflight,    \* indices of the cases whose axios call has not settled yet
    sent,        \* number of sendRequest calls made by the run (history)
    wire,        \* what the axios call did, per recorded result (history)
    writes,      \* number of writes of REPORT_FILE made by the run (history)
    reportAtStart, \* REPORT_FILE when the run command started (history)
    envAtStart,  \* ENV_FILE when the save command(s) started (history)
    console,     \* lines printed by the command in progress / last command
    last,        \* what the last peripheral command did (history)
    spc,         \* position of each concurrent `save` invocation
    sargs,       \* name and answers of each concurrent `save` invocation
    slocal,      \* saveEnv: const envs of each concurrent invocation
    events       \* order of the loads and writes of the concurrent saves (history)

vars == <<suiteFile, reportFile, envFile, pc, tests, results, next, inflight,
          sent, wire, writes, reportAtStart, envAtStart, console, last,
          spc, sargs, slocal, events>>

runVars == <<suiteFile, pc, tests, results, next, inflight, sent, wire, writes, reportAtStart>>
raceVars == <<envAtStart, spc, sargs, slocal, events>>

----------------------------------------------------------------------------
(* Bounds and input sets *)

MaxTests == 2

Missing == [kind |-> "missing"]
Garbage == [kind |-> "garbage"]
Json(v) == [kind |-> "json", value |-> v]

\* response bodies: an object, and the empty body
ObjBody == "{\"id\":1}"
EmptyBody == ""
\* response header sets
NoHeaders == [h \in {} |-> ""]
TimedHeaders == [h \in {"x-response-time"} |-> "12ms"]
\* messages of the errors axios rejects with (a Node AggregateError carries
\* the empty message)
Messages == {"connect ECONNREFUSED", ""}

\* what the axios call of sendRequest can do: resolve with a response of any
\* status (validateStatus accepts them all) or reject with an error
AxiosOutcomes ==
    {[kind |-> "response", status |-> 200, headers |-> TimedHeaders, data |-> ObjBody],
     [kind |-> "response", status |-> 200, headers |-> NoHeaders, data |-> EmptyBody],
     [kind |-> "response", status |-> 404, headers |-> NoHeaders, data |-> ObjBody],
     [kind |-> "response", status |-> 404, headers |-> TimedHeaders, data |-> EmptyBody]}
    \cup {[kind |-> "throw", message |-> m] : m \in Messages}

EmptySchema == {}
ObjectSchema == {<<"type", "object">>}
Schemas == {EmptySchema, ObjectSchema}

TheRequest == [method |-> "GET", url |-> "https://example.com/200"]

\* the cases of a suite are named after their place in the file
CaseName(i) == "t" \o ToString(i)

\* test case declarations at place i: expectedStatus and expectedSchema are optional
TestCasesAt(i) ==
    {[name |-> CaseName(i), request |-> TheRequest],
     [name |-> CaseName(i), request |-> TheRequest, expectedStatus |-> 200]}
    \cup {[name |-> CaseName(i), request |-> TheRequest, expectedSchema |-> s] :
             s \in Schemas}
    \cup {[name |-> CaseName(i), request |-> TheRequest, expectedStatus |-> 200,
           expectedSchema |-> s] : s \in Schemas}

SeqsUpTo(S, n) == UNION {[1..k -> S] : k \in 0..n}

Suites ==
    {s \in SeqsUpTo(UNION {TestCasesAt(i) : i \in 1..MaxTests}, MaxTests) :
        \A i \in DOMAIN s : s[i] \in TestCasesAt(i)}

----------------------------------------------------------------------------
(* JavaScript helpers *)

\* a.f === b.g, where a missing property reads as undefined
StrictEq(a, f, b, g) ==
    IF f \in DOMAIN a /\ g \in DOMAIN b
    THEN a[f] = b[g]
    ELSE f \notin DOMAIN a /\ g \notin DOMAIN b

\* truthiness of o.f for a string-valued property: undefined and "" are falsy
Truthy(o, f) == f \in DOMAIN o /\ o[f] # ""

\* `${o.f}` in a template literal
Show(o, f) == IF f \in DOMAIN o THEN ToString(o[f]) ELSE "undefined"

\* fs.readJson(file): rejects when the file is missing or is not JSON
readJson(file) ==
    IF file.kind = "json"
    THEN [threw |-> FALSE, value |-> file.value]
    ELSE [threw |-> TRUE]

JsonType(d) == IF d = ObjBody THEN "object" ELSE "string"

\* jsonschema validate(instance, schema).valid for a defined instance
validate(data, schema) ==
    \A kw \in schema : kw[1] = "type" => JsonType(data) = kw[2]

----------------------------------------------------------------------------
(* Request executor *)

\* sendRequest without validateStatus: axios rejects a status outside 2xx
sendRequestDefaultValidate(request, axios) ==
    IF axios.kind = "response" /\ axios.status < 300
    THEN [status |-> axios.status,
          headers |-> axios.headers,
          data |-> axios.data,
          responseTime |-> IF Truthy(axios.headers, "x-response-time")
                           THEN axios.headers["x-response-time"]
                           ELSE "N/A"]
    ELSE [error |-> IF axios.kind = "response"
                    THEN "Request failed with status code " \o ToString(axios.status)
                    ELSE axios.message]

\* sendRequest, given what the axios call did
sendRequest(request, axios) ==
    IF axios.kind = "response"
    THEN [status |-> axios.status,
          headers |-> axios.headers,
          data |-> axios.data,
          responseTime |-> IF Truthy(axios.headers, "x-response-time")
                           THEN axios.headers["x-response-time"]
                           ELSE "N/A"]
    ELSE [error |-> axios.message]

----------------------------------------------------------------------------
(* Test suite runner *)

\* const passed = !result.error && result.status === test.expectedStatus &&
\*   (!test.expectedSchema || validate(result.data, test.expectedSchema).valid)
\* validUndef is what the validator answers for an undefined instance
Passed(test, result, validUndef) ==
    /\ ~Truthy(result, "error")
    /\ StrictEq(result, "status", test, "expectedStatus")
    /\ \/ "expectedSchema" \notin DOMAIN test
       \/ IF "data" \in DOMAIN result
          THEN validate(result.data, test.expectedSchema)
          ELSE validUndef

TestResult(test, result, validUndef) ==
    [name |-> test.name, passed |-> Passed(test, result, validUndef), result |-> result]

\* the line an iteration prints before the request
RunningLine(test) == "Running test: " \o test.name

\* the lines an iteration prints once the request has settled
CaseLines(test, result, passed) ==
    <<IF passed THEN "Passed" ELSE "Failed",
      "Status: " \o Show(result, "status") \o ", Expected: " \o Show(test, "expectedStatus")>>
    \o (IF Truthy(result, "error") THEN <<"Error: " \o result.error>> ELSE <<>>)

\* a parse that recovers to the empty suite, as generateReport does for the report
ParseSuiteOrEmpty(file) ==
    IF file.kind = "json" THEN readJson(file) ELSE [threw |-> FALSE, value |-> <<>>]

\* const tests = await fs.readJson(file)
ParseSuite(file) == readJson(file)

\* a loop that stops at the first failed case
HasNextUntilFailure(ts, nxt, rs) ==
    nxt <= Len(ts) /\ \A k \in DOMAIN rs : rs[k].passed

\* the for-of loop takes another case: it depends on the position only
HasNext(ts, nxt, rs) == nxt <= Len(ts)

\* a loop that does not await the request
CanSendNoAwait(ts, nxt, rs, fl) == HasNext(ts, nxt, rs)

\* `await sendRequest(...)`: the loop body does not go on until the call settles
CanSend(ts, nxt, rs, fl) == fl = {} /\ HasNext(ts, nxt, rs)

\* a write that appends to the report already there
ReportAppended(prior, rs) ==
    IF prior.kind = "json" THEN Json(prior.value \o rs) ELSE Json(rs)

\* what fs.writeJson(REPORT_FILE, results) leaves in the file
ReportContent(prior, rs) == Json(rs)

\* runTestSuite up to the loop: read and parse the file
ReadSuite ==
    /\ pc = "start"
    /\ LET r == ParseSuite(suiteFile) IN
         IF r.threw
         THEN /\ pc' = "failed"
              /\ UNCHANGED <<tests, results>>
         ELSE /\ pc' = "running"
              /\ tests' = r.value
              /\ results' = <<>>
    /\ UNCHANGED <<suiteFile, reportFile, envFile, next, inflight, sent, wire, writes,
                   reportAtStart, console, last, raceVars>>

\* loop head up to the await: sendRequest(test.request) calls axios
SendCase ==
    /\ pc = "running"
    /\ CanSend(tests, next, results, inflight)
    /\ inflight' = inflight \cup {next}
    /\ next' = next + 1
    /\ sent' = sent + 1
    /\ console' = Append(console, RunningLine(tests[next]))
    /\ UNCHANGED <<suiteFile, reportFile, envFile, pc, tests, results, wire, writes,
                   reportAtStart, last, raceVars>>

\* the axios call of case i settles; the rest of the loop body runs
SettleCase ==
    /\ pc = "running"
    /\ \E i \in inflight, axios \in AxiosOutcomes, validUndef \in BOOLEAN :
         LET test == tests[i]
             result == sendRequest(test.request, axios)
             tr == TestResult(test, result, validUndef)
         IN /\ results' = Append(results, tr)
            /\ console' = console \o CaseLines(test, result, tr.passed)
            /\ inflight' = inflight \ {i}
            /\ wire' = Append(wire, axios)
    /\ UNCHANGED <<suiteFile, reportFile, envFile, pc, tests, next, sent, writes,
                   reportAtStart, last, raceVars>>

\* after the loop: write the report
WriteReport ==
    /\ pc = "running"
    /\ inflight = {}
    /\ ~HasNext(tests, next, results)
    /\ reportFile' = ReportContent(reportFile, results)
    /\ writes' = writes + 1
    /\ console' = Append(console, "Test report saved")
    /\ pc' = "done"
    /\ UNCHANGED <<suiteFile, envFile, tests, results, next, inflight, sent, wire,
                   reportAtStart, last, raceVars>>

----------------------------------------------------------------------------
(* Specification of the `run` command *)

OldResult == [name |-> "old", passed |-> TRUE,
              result |-> [status |-> 200, headers |-> NoHeaders,
                          data |-> EmptyBody, responseTime |-> "N/A"]]

NoLast == [cmd |-> "none"]
NoSaves == [p \in {} |-> 0]

Init ==
    /\ suiteFile \in {Missing, Garbage} \cup {Json(s) : s \in Suites}
    /\ reportFile \in {Missing, Garbage, Json(<<OldResult>>)}
    /\ envFile = Missing
    /\ pc = "start"
    /\ tests = <<>>
    /\ results = <<>>
    /\ next = 1
    /\ inflight = {}
    /\ sent = 0
    /\ wire = <<>>
    /\ writes = 0
    /\ reportAtStart = reportFile
    /\ envAtStart = envFile
    /\ console = <<>>
    /\ last = NoLast
    /\ spc = NoSaves
    /\ sargs = NoSaves
    /\ slocal = NoSaves
    /\ events = <<>>

Next ==
    \/ ReadSuite
    \/ SendCase
    \/ SettleCase
    \/ WriteReport

Spec == Init /\ [][Next]_vars

\* the event loop runs every continuation that is ready, and the transport
\* settles every call, with a response or with an error
FairSpec ==
    /\ Spec
    /\ WF_vars(ReadSuite)
    /\ WF_vars(SendCase)
    /\ WF_vars(SettleCase)
    /\ WF_vars(WriteReport)

----------------------------------------------------------------------------
(* Environment store *)

EmptyMap == [n \in {} |-> ""]

\* an assignment that drops the entries of the other names
SetKeyOnly(envs, name, env) == [n \in {name} |-> env]

\* envs[name] = env on a plain object: the entry is replaced as a whole
SetKey(envs, name, env) ==
    [n \in DOMAIN envs \cup {name} |-> IF n = name THEN env ELSE envs[n]]

\* loadEnv without the catch: the rejection of readJson propagates
loadEnvNoCatch(file) == readJson(file)

\* loadEnv: the parsed file, or {} when readJson rejects
loadEnv(file) ==
    LET r == readJson(file) IN
    IF r.threw THEN [threw |-> FALSE, value |-> EmptyMap] ELSE r

\* a write that sets the key in the file as it is at the time of the write
saveContentReread(current, envs, name, env) ==
    Json(SetKey(loadEnv(current).value, name, env))

\* saveEnv after the load: envs[name] = env; fs.writeJson(ENV_FILE, envs)
saveContent(current, envs, name, env) == Json(SetKey(envs, name, env))

Fallback == "https://api.example.com"
EnvNames == {"dev", "baseUrl"}
\* answers of the two prompts of `save`; an apiKey left blank is ""
Answers == {[baseUrl |-> Fallback, apiKey |-> ""],
            [baseUrl |-> "https://dev.example.com", apiKey |-> "k1"]}
EnvMaps == UNION {[D -> Answers] : D \in SUBSET EnvNames}

\* the `save <name>` command, run alone: prompts, then saveEnv
SaveCmd ==
    /\ \E name \in EnvNames, answers \in Answers :
         LET l == loadEnv(envFile) IN
           /\ envAtStart' = envFile
           /\ IF l.threw
              THEN /\ last' = [cmd |-> "save", failed |-> TRUE, name |-> name, env |-> answers]
                   /\ console' = <<>>
                   /\ UNCHANGED envFile
              ELSE /\ envFile' = saveContent(envFile, l.value, name, answers)
                   /\ last' = [cmd |-> "save", failed |-> FALSE, name |-> name,
                               env |-> answers, loaded |-> l.value]
                   /\ console' = <<"Environment \"" \o name \o "\" saved!">>
    /\ UNCHANGED <<reportFile, runVars, spc, sargs, slocal, events>>

----------------------------------------------------------------------------
(* Report generator *)

\* fs.readJson(REPORT_FILE).catch(() => [])
LoadReport(file) ==
    LET r == readJson(file) IN
    IF r.threw THEN [threw |-> FALSE, value |-> <<>>] ELSE r

RECURSIVE ReportLines(_)
ReportLines(report) ==
    IF report = <<>> THEN <<>>
    ELSE LET t == Head(report) IN
         <<t.name \o ": " \o (IF t.passed THEN "Passed" ELSE "Failed"),
           "Status: " \o Show(t.result, "status")>>
         \o (IF Truthy(t.result, "error") THEN <<"Error: " \o t.result.error>> ELSE <<>>)
         \o ReportLines(Tail(report))

PassedCount(report) == Cardinality({k \in DOMAIN report : report[k].passed})

\* the `report` command
GenerateReport ==
    /\ LET r == LoadReport(reportFile) IN
         IF r.threw
         THEN /\ last' = [cmd |-> "report", failed |-> TRUE]
              /\ console' = <<>>
         ELSE /\ last' = [cmd |-> "report", failed |-> FALSE,
                          total |-> Len(r.value), passed |-> PassedCount(r.value)]
              /\ console' = <<"Test Report:">> \o ReportLines(r.value)
                            \o <<"Total: " \o ToString(Len(r.value)) \o ", Passed: "
                                 \o ToString(PassedCount(r.value))>>
    /\ UNCHANGED <<reportFile, envFile, runVars, raceVars>>

----------------------------------------------------------------------------
(* Interactive session *)

Methods == {"GET", "POST", "PUT", "DELETE"}
\* the prompts whose answer goes through JSON.parse
JsonPrompts == {"headers", "query", "body", "expectedSchema"}

\* default: env.baseUrl || 'https://api.example.com', env being what loadEnv
\* returned, the mapping of environment names
UrlDefault(env) ==
    IF "baseUrl" \in DOMAIN env
    THEN [type |-> "object", value |-> env["baseUrl"]]
    ELSE [type |-> "string", value |-> Fallback]

\* when: ({ method }) => ['POST', 'PUT'].includes(method)
BodyPrompted(method) == method \in {"POST", "PUT"}

\* the lines printed after the request
OutcomeLines(result, schema) ==
    IF Truthy(result, "error")
    THEN <<"Error: " \o result.error>>
    ELSE <<"Response:", "Status: " \o Show(result, "status"),
           "Response Time: " \o Show(result, "responseTime")>>
         \o (IF schema # EmptySchema /\ "data" \in DOMAIN result
             THEN <<"Schema Validation:",
                    IF validate(result.data, schema) THEN "Valid" ELSE "Invalid">>
             ELSE <<>>)

\* the `interactive` command; malformed names the prompt, if any, that is
\* answered with text that is not JSON
InteractiveCmd ==
    /\ \E method \in Methods, acceptDefault \in BOOLEAN,
          malformed \in JsonPrompts \cup {"none"},
          schema \in Schemas, axios \in AxiosOutcomes :
         LET l == loadEnv(envFile)
             default == UrlDefault(l.value)
             url == IF acceptDefault THEN default
                    ELSE [type |-> "string", value |-> "https://typed.example.com"]
             parseFails == /\ malformed # "none"
                           /\ malformed = "body" => BodyPrompted(method)
             result == sendRequest([method |-> method, url |-> url], axios)
         IN IF l.threw
            THEN /\ last' = [cmd |-> "interactive", failed |-> TRUE, loadFailed |-> TRUE]
                 /\ console' = <<>>
            ELSE IF parseFails
            THEN /\ last' = [cmd |-> "interactive", failed |-> TRUE, loadFailed |-> FALSE,
                             env |-> l.value, urlDefault |-> default,
                             bodyPrompted |-> BodyPrompted(method)]
                 /\ console' = <<>>
            ELSE /\ last' = [cmd |-> "interactive", failed |-> FALSE, loadFailed |-> FALSE,
                             env |-> l.value, urlDefault |-> default,
                             bodyPrompted |-> BodyPrompted(method)]
                 /\ console' = <<"Sending request...">> \o OutcomeLines(result, schema)
    /\ UNCHANGED <<reportFile, envFile, runVars, raceVars>>

----------------------------------------------------------------------------
(* Specification of the commands that read and write the persisted files, *)
(* run one after the other                                                *)

ErrorResult == [name |-> "down", passed |-> FALSE,
                result |-> [error |-> "connect ECONNREFUSED"]]
StoredReports == SeqsUpTo({OldResult, ErrorResult}, MaxTests)

StoreInit ==
    /\ envFile \in {Missing, Garbage} \cup {Json(m) : m \in EnvMaps}
    /\ reportFile \in {Missing, Garbage} \cup {Json(r) : r \in StoredReports}
    /\ suiteFile = Missing
    /\ pc = "idle"
    /\ tests = <<>>
    /\ results = <<>>
    /\ next = 1
    /\ inflight = {}
    /\ sent = 0
    /\ wire = <<>>
    /\ writes = 0
    /\ reportAtStart = reportFile
    /\ envAtStart = envFile
    /\ console = <<>>
    /\ last = NoLast
    /\ spc = NoSaves
    /\ sargs = NoSaves
    /\ slocal = NoSaves
    /\ events = <<>>

StoreNext ==
    \/ SaveCmd
    \/ GenerateReport
    \/ InteractiveCmd

StoreSpec == StoreInit /\ [][StoreNext]_vars

----------------------------------------------------------------------------
(* Two `save` invocations of the tool running against the same ENV_FILE   *)

Savers == {1, 2}

\* saveEnv up to the await of loadEnv
RaceLoad(p) ==
    /\ spc[p] = "start"
    /\ LET l == loadEnv(envFile) IN
         IF l.threw
         THEN /\ spc' = [spc EXCEPT ![p] = "failed"]
              /\ UNCHANGED slocal
         ELSE /\ spc' = [spc EXCEPT ![p] = "loaded"]
              /\ slocal' = [slocal EXCEPT ![p] = l.value]
    /\ events' = Append(events, <<"load", p>>)
    /\ UNCHANGED <<reportFile, envFile, runVars, envAtStart, sargs, console, last>>

\* saveEnv from the assignment to the end: the file is overwritten as a whole
RaceWrite(p) ==
    /\ spc[p] = "loaded"
    /\ envFile' = saveContent(envFile, slocal[p], sargs[p].name, sargs[p].env)
    /\ spc' = [spc EXCEPT ![p] = "done"]
    /\ events' = Append(events, <<"write", p>>)
    /\ console' = Append(console, "Environment \"" \o sargs[p].name \o "\" saved!")
    /\ UNCHANGED <<reportFile, runVars, envAtStart, sargs, slocal, last>>

RaceInit ==
    /\ envFile \in {Missing, Garbage} \cup {Json(m) : m \in EnvMaps}
    /\ reportFile = Missing
    /\ suiteFile = Missing
    /\ pc = "idle"
    /\ tests = <<>>
    /\ results = <<>>
    /\ next = 1
    /\ inflight = {}
    /\ sent = 0
    /\ wire = <<>>
    /\ writes = 0
    /\ reportAtStart = reportFile
    /\ envAtStart = envFile
    /\ console = <<>>
    /\ last = NoLast
    /\ spc = [p \in Savers |-> "start"]
    /\ sargs \in [Savers -> [name : EnvNames, env : Answers]]
    /\ slocal = [p \in Savers |-> EmptyMap]
    /\ events = <<>>

RaceNext == \E p \in Savers : RaceLoad(p) \/ RaceWrite(p)

RaceSpec == RaceInit /\ [][RaceNext]_vars

----------------------------------------------------------------------------
(* Properties of the `run` command, checked under Spec *)

TransportError(r) == "error" \in DOMAIN r

\* passed, as the specification defines it
SpecPassed(test, r) ==
    /\ ~TransportError(r)
    /\ "status" \in DOMAIN r
    /\ "expectedStatus" \in DOMAIN test
    /\ r.status = test.expectedStatus
    /\ \/ "expectedSchema" \notin DOMAIN test
       \/ validate(r.data, test.expectedSchema)

\* C1: every recorded TestResult has passed = TRUE iff the request had no
\* transport error, the actual status equals the expected status, and the
\* case has no expectedSchema or the validator reports the data valid.
C1_PassedIffSpec ==
    \A i \in DOMAIN results :
        i \in DOMAIN tests =>
            (results[i].passed <=> SpecPassed(tests[i], results[i].result))

\* C2: sendRequest returns exactly one of two shapes: for a received
\* response of any status, status/headers/data/responseTime of that response
\* and no error; for a transport failure, only error, the failure's message.
C2_TaggedOutcome ==
    \A i \in DOMAIN results :
        i \in DOMAIN wire =>
            LET a == wire[i]
                r == results[i].result
            IN /\ a.kind = "response" =>
                    /\ DOMAIN r = {"status", "headers", "data", "responseTime"}
                    /\ r.status = a.status
                    /\ r.headers = a.headers
                    /\ r.data = a.data
                    /\ r.responseTime =
                         (IF "x-response-time" \in DOMAIN a.headers
                          THEN a.headers["x-response-time"] ELSE "N/A")
               /\ a.kind = "throw" =>
                    /\ DOMAIN r = {"error"}
                    /\ r.error = a.message
               /\ ("error" \in DOMAIN r) # ("status" \in DOMAIN r)

C2_Witness ==
    /\ Len(results) = 2
    /\ wire[1].kind = "response" /\ wire[1].status = 404
    /\ wire[2].kind = "throw"

C6_BadSuiteNoExecution ==
    suiteFile.kind # "json" =>
        /\ pc \in {"start", "failed"}
        /\ sent = 0
        /\ inflight = {}
        /\ results = <<>>
        /\ writes = 0
        /\ reportFile = reportAtStart

C6_Witness ==
    /\ pc = "failed"
    /\ suiteFile = Garbage
    /\ reportFile.kind = "json"

VerdictLines == {k \in DOMAIN console : console[k] \in {"Passed", "Failed"}}

\* C7: cases run one at a time in file order: at most one request is in
\* flight, the request of case i+1 is in flight only when cases 1..i have
\* their result recorded and printed, and the i-th result carries the name of
\* the i-th case.
C7_Sequential ==
    /\ Cardinality(inflight) <= 1
    /\ inflight # {} => inflight = {Len(results) + 1}
    /\ sent \in {Len(results), Len(results) + 1}
    /\ Cardinality(VerdictLines) = Len(results)
    /\ \A i \in DOMAIN results :
          i \in DOMAIN tests /\ results[i].name = tests[i].name

C7_Witness ==
    /\ inflight = {2}
    /\ Len(results) = 1
    /\ results[1].name = "t1"
    /\ tests[2].name = "t2"

\* C8: the report file is written once per run, after the last case, and
\* then holds exactly the run's results: the prior content is replaced and
\* nothing is written while cases are still running.
C8_ReportWrittenOnce ==
    /\ pc \in {"start", "running", "failed"} =>
          writes = 0 /\ reportFile = reportAtStart
    /\ pc = "done" =>
          /\ writes = 1
          /\ inflight = {}
          /\ Len(results) = Len(tests)
          /\ reportFile = Json(results)

C8_Witness ==
    /\ pc = "done"
    /\ reportAtStart = Json(<<OldResult>>)
    /\ Len(results) = 2

----------------------------------------------------------------------------
(* Properties of the persisted files, checked under StoreSpec *)

\* the environments a file holds, read as the specification reads it
Saved(file) == IF file.kind = "json" THEN file.value ELSE EmptyMap

C5_MissingFileIsEmpty ==
    /\ (last.cmd = "report" /\ reportFile.kind # "json") =>
          /\ ~last.failed
          /\ last.total = 0
          /\ last.passed = 0
          /\ console = <<"Test Report:", "Total: 0, Passed: 0">>
    /\ (last.cmd = "interactive" /\ envFile.kind # "json") =>
          /\ ~last.loadFailed
          /\ last.env = EmptyMap
    /\ (last.cmd = "save" /\ envAtStart.kind # "json") =>
          /\ ~last.failed
          /\ last.loaded = EmptyMap

\* a save on a missing environment file, then a report on an unparsable report file
C5_Witness ==
    /\ last.cmd = "report"
    /\ reportFile = Garbage
    /\ last.total = 0
    /\ envAtStart = Missing
    /\ envFile.kind = "json"
    /\ Cardinality(DOMAIN envFile.value) = 1

\* C9: the default of the URL prompt is the baseUrl of a saved environment
\* when one has been saved, and the fallback only when none has been saved.
C9_DefaultFromSavedEnv ==
    (last.cmd = "interactive" /\ ~last.loadFailed) =>
        LET saved == Saved(envFile) IN
        /\ last.urlDefault.type = "string"
        /\ IF DOMAIN saved # {}
           THEN \E n \in DOMAIN saved : last.urlDefault.value = saved[n].baseUrl
           ELSE last.urlDefault.value = Fallback

----------------------------------------------------------------------------
(* Properties of concurrent saves, checked under RaceSpec *)

BothDone == \A p \in Savers : spc[p] = "done"
Kinds(evs) == [k \in DOMAIN evs |-> evs[k][1]]
\* both invocations load before either writes
Raced == BothDone /\ Kinds(events) = <<"load", "load", "write", "write">>
\* one invocation completes before the other loads
Serial == BothDone /\ Kinds(events) = <<"load", "write", "load", "write">>
\* the invocation that writes last, and the one that writes first
Later == events[Len(events)][2]
Earlier == CHOOSE p \in Savers : p # Later

\* C10: two saves of different names.  If both load before either writes,
\* the file ends as the later writer wrote it (the file as it was before,
\* with the later writer's entry) and the earlier writer's entry is lost; if
\* they do not interleave, both entries are in the file.
C10_LastWriterWins ==
    (BothDone /\ sargs[1].name # sargs[2].name) =>
        LET before == Saved(envAtStart)
            e == sargs[Earlier]
            l == sargs[Later]
            now == Saved(envFile)
        IN /\ envFile.kind = "json"
           /\ Raced =>
                /\ now = SetKey(before, l.name, l.env)
                /\ IF e.name \in DOMAIN before
                   THEN now[e.name] = before[e.name]
                   ELSE e.name \notin DOMAIN now
           /\ Serial =>
                /\ now = SetKey(SetKey(before, e.name, e.env), l.name, l.env)
                /\ now[e.name] = e.env
                /\ now[l.name] = l.env

C10_Witness ==
    /\ Raced
    /\ sargs[1].name # sargs[2].name
    /\ sargs[Earlier].name \notin DOMAIN Saved(envFile)
    /\ sargs[Later].name \in DOMAIN Saved(envFile)
    /\ DOMAIN Saved(envAtStart) = {}

====
